---------------------------- MODULE Spec2Model ----------------------------
(***************************************************************************)
(* The bounded-concurrency probing engine of the week2 scripts:            *)
(*   day10/port_scan.py    parse_ports, scan_port, run_scan, main          *)
(*   day11/banner_grab.py  try_banner, parse_ports, read_targets_file,     *)
(*                         build_targets_from_args, run_bulk, main         *)
(*   day9/ping_sweeper.py  ping_icmp, tcp_probe, scan_ip, sweep            *)
(*                                                                         *)
(* Spec         one run of run_scan / run_bulk / sweep over a thread pool. *)
(* SpecTwoRuns  the same run made twice over the same targets, each probe  *)
(*              ending the second time as it did the first (to compare the *)
(*              two returned values).                                      *)
(* SpecProbe    one call of a probe function against every answer the      *)
(*              transport can give.                                        *)
(* SpecAll      either of Spec and SpecProbe.                              *)
(* SpecEnum     one call of parse_ports (of either file), of               *)
(*              read_targets_file, or of the enumeration main makes.       *)
(* SpecMain     main of port_scan.py and of banner_grab.py: the            *)
(*              enumeration, then the run over what was enumerated.        *)
(* SpecLive     one run of run_scan or run_bulk under fair scheduling of   *)
(*              the calling thread and of the worker threads, the probe    *)
(*              the first worker thread runs being free to block for ever. *)
(*                                                                         *)
(* as_completed yields the futures that are finished in any order: those   *)
(* finished before the loop starts come out of a set, the others as they   *)
(* finish.  A time stamp is the number of events of the run that have      *)
(* happened when the clock is read.                                        *)
(*                                                                         *)
(* Python values: None is the empty tuple and any other optional value x   *)
(* is <<x>>; a text is the tuple of its characters or of the pieces an     *)
(* f-string joins; an exception is a record [cls, msg].                    *)
(***************************************************************************)
EXTENDS Integers, Sequences, FiniteSets, TLC

VARIABLES
    prog,        \* the entry point of this run: "run_scan", "run_bulk", "sweep"
    cfg,         \* its arguments other than the targets
    targets,     \* ports / targets / ips: the list the futures are built from
    pc,          \* the calling thread: "submit", "collect", "done" ("off" in SpecProbe)
    next_i,      \* index of the next target the comprehension submits
    queue,       \* ThreadPoolExecutor._work_queue: indices of submitted work items
    threads,     \* ThreadPoolExecutor._threads: one record per worker thread
    idle_sem,    \* ThreadPoolExecutor._idle_semaphore
    fut,         \* the futures: index -> [state, result, exception]
    fate,        \* how the probe of each target ended: its result or its exception
    yielded,     \* the futures as_completed has yielded, in that order
    results,     \* the list the calling thread appends to
    ret,         \* the value returned
    run,         \* 1, or 2 in the second run of SpecTwoRuns
    first_ret,   \* the value the first run returned (SpecTwoRuns)
    start,       \* the time stamp the run function took when it was entered
    p_pc,        \* SpecProbe: "call", "returned" ("off" in the scheduler specs)
    p_fn,        \* SpecProbe: the probe function called
    p_args,      \* SpecProbe: its arguments
    p_net,       \* SpecProbe: the transport's answers
    p_ret,       \* SpecProbe: the value returned, or the exception raised
    p_calls,     \* SpecProbe: the calls of the transport the function made
    made,        \* per target, one entry per invocation of its probe: the
                 \* calls of the transport that invocation made
    e_pc,        \* SpecEnum, SpecMain: "call", "returned", "raised" ("off" elsewhere)
    e_fn,        \* the enumerating function called
    e_arg,       \* the command line it gets its argument from
    e_parts,     \* the parts the port specification of e_arg was written from
    e_ret        \* what it returned or raised

sched_vars == <<prog, cfg, targets, pc, next_i, queue, threads, idle_sem, fut,
                fate, yielded, results, ret, run, first_ret, start, made>>
probe_vars == <<p_pc, p_fn, p_args, p_net, p_ret, p_calls>>
enum_vars == <<e_pc, e_fn, e_arg, e_parts, e_ret>>
vars == <<prog, cfg, targets, pc, next_i, queue, threads, idle_sem, fut,
          fate, yielded, results, ret, run, first_ret, start, made,
          p_pc, p_fn, p_args, p_net, p_ret, p_calls,
          e_pc, e_fn, e_arg, e_parts, e_ret>>

(***************************************************************************)
(* Bounds of the model.                                                    *)
(***************************************************************************)
MaxTargets == 3
MaxWorkers == 2
MaxData == 2
MaxTimeout == 1
MaxParts == 2
MaxLines == 2

(***************************************************************************)
(* Python values.                                                          *)
(***************************************************************************)
None == <<>>
Some(x) == <<x>>

SeqsUpTo(S, n) == UNION {[1..k -> S] : k \in 0..n}

\* range(a, b) and the set of its elements
range(a, b) == [i \in 1..(IF b > a THEN b - a ELSE 0) |-> a + i - 1]
elements(r) == {r[k] : k \in 1..Len(r)}

\* bytes: "S" a printable ASCII byte, " " an ASCII whitespace byte, "~" a byte
\* that is not valid UTF-8
Bytes == {"S", " ", "~"}
Datas == SeqsUpTo(Bytes, MaxData)

\* bytes.decode(errors="ignore"): undecodable bytes are dropped
decode_ignore(data) == SelectSeq(data, LAMBDA b : b # "~")

\* str.strip(): leading and trailing whitespace removed
RECURSIVE lstrip(_)
lstrip(t) == IF t # <<>> /\ Head(t) = " " THEN lstrip(Tail(t)) ELSE t
RECURSIVE rstrip(_)
rstrip(t) ==
    IF t # <<>> /\ t[Len(t)] = " " THEN rstrip(SubSeq(t, 1, Len(t) - 1)) ELSE t
strip(t) == rstrip(lstrip(t))

\* the exceptions the transport raises
Exc(cls, msg) == [cls |-> cls, msg |-> msg]
TimeoutExc == Exc("socket.timeout", "timed out")
RefusedExc == Exc("ConnectionRefusedError", "[Errno 111] Connection refused")
ResetExc == Exc("ConnectionResetError", "[Errno 104] Connection reset by peer")
ResolveExc == Exc("socket.gaierror", "[Errno -2] Name or service not known")
SocketExc == Exc("OSError", "[Errno 24] Too many open files")
SSLExc == Exc("ssl.SSLError", "[SSL] wrong version number")
\* an exception raised outside the try blocks of a probe function, while it
\* builds its result; it has no message
MemoryExc == Exc("MemoryError", "")
\* time.sleep(delay) with delay < 0
SleepExc == Exc("ValueError", "sleep length must be non-negative")

\* str(e)
str(e) == e.msg


(***************************************************************************)
(* The transport.  A net records what the transport answers to each call   *)
(* a probe may make; a probe reads only the answers to the calls it makes. *)
(*   sock     socket.socket(): "ok" | "raise"                              *)
(*   connect  connect / connect_ex: "ok" | "refused" | "timeout" | "raise" *)
(*            ("raise": the host name does not resolve)                    *)
(*   wrap     context.wrap_socket: "ok" | "raise"                          *)
(*   send     sendall: "ok" | "raise"                                      *)
(*   recv     recv: "data" | "timeout" | "raise"                           *)
(*   data     the bytes recv returns (<<>> is b"": the peer closed)        *)
(*   ping     subprocess.run(ping): "reply" | "noreply" | "raise"          *)
(*   dur      how long each blocking call takes, in clock ticks            *)
(*   fault    an exception raised outside every try block, or None         *)
(***************************************************************************)
NoDur == [connect |-> 0, wrap |-> 0, send |-> 0, recv |-> 0]
DefaultNet ==
    [sock |-> "ok", connect |-> "ok", wrap |-> "ok", send |-> "ok",
     recv |-> "data", data |-> <<"S">>, ping |-> "reply", dur |-> NoDur,
     fault |-> None]

\* the exception connect() raises
connect_exc(net) ==
    CASE net.connect = "timeout" -> TimeoutExc
      [] net.connect = "refused" -> RefusedExc
      [] OTHER -> ResolveExc

\* the exception recv() raises
recv_exc(net) == IF net.recv = "timeout" THEN TimeoutExc ELSE ResetExc

\* socket.connect_ex: the errno of the C-level connect instead of an exception
\* (ECONNREFUSED; EWOULDBLOCK when the timeout expires)
connect_ex(net) ==
    CASE net.connect = "ok" -> 0
      [] net.connect = "refused" -> 111
      [] OTHER -> 11

(***************************************************************************)
(* day10/port_scan.py                                                      *)
(***************************************************************************)
scan_port_banner(result, net) ==
    IF net.recv = "data"
    THEN IF net.data # <<>>
         THEN [result EXCEPT !.banner = Some(strip(decode_ignore(net.data)))]
         ELSE result
    ELSE [result EXCEPT !.banner = Some(<<"<banner error: ", str(recv_exc(net)), ">">>)]

\* (mutant) s.connect() in place of s.connect_ex(): a refused or timed-out
\* connect raises and is caught by the except clause
scan_port_using_connect(host, port, timeout, do_banner, net) ==
    LET result == [port |-> port, open |-> FALSE, banner |-> None, error |-> None]
    IN  IF net.sock = "raise"
        THEN [result EXCEPT !.error = Some(<<str(SocketExc)>>)]
        ELSE IF net.connect # "ok"
        THEN [result EXCEPT !.error = Some(<<str(connect_exc(net))>>)]
        ELSE IF do_banner
        THEN scan_port_banner([result EXCEPT !.open = TRUE], net)
        ELSE [result EXCEPT !.open = TRUE]

scan_port(host, port, timeout, do_banner, net) ==
    LET result == [port |-> port, open |-> FALSE, banner |-> None, error |-> None]
    IN  IF net.sock = "raise"
        THEN [result EXCEPT !.error = Some(<<str(SocketExc)>>)]
        ELSE IF net.connect = "raise"
        THEN [result EXCEPT !.error = Some(<<str(ResolveExc)>>)]
        ELSE IF connect_ex(net) = 0
        THEN IF do_banner
             THEN scan_port_banner([result EXCEPT !.open = TRUE], net)
             ELSE [result EXCEPT !.open = TRUE]
        ELSE result

(***************************************************************************)
(* day11/banner_grab.py                                                    *)
(***************************************************************************)
HTTP_PORTS == {80, 8080, 8000, 443, 8443}
SSL_PORTS == {443, 8443}

\* line 52: the socket is wrapped
tls_attempted(port, use_ssl) == use_ssl \/ port \in SSL_PORTS
\* line 61: the HEAD request is sent
http_attempted(port, http_probe) == http_probe /\ port \in HTTP_PORTS

\* lines 52-58
try_banner_wrap(out, use_ssl, net) ==
    IF tls_attempted(out.port, use_ssl) /\ net.wrap = "raise"
    THEN [out EXCEPT !.error = Some(<<"ssl_wrap_error: ", str(SSLExc)>>)]
    ELSE out

\* (mutant) an empty read counts as a success
try_banner_recv_empty_success(out, net) ==
    CASE net.recv = "data" ->
           IF net.data # <<>>
           THEN [out EXCEPT !.banner = Some(strip(decode_ignore(net.data))),
                            !.success = TRUE]
           ELSE [out EXCEPT !.banner = None, !.success = TRUE]
      [] net.recv = "timeout" -> [out EXCEPT !.error = Some(<<"recv_timeout">>)]
      [] OTHER -> [out EXCEPT !.error = Some(<<"recv_error: ", str(recv_exc(net))>>)]

\* (mutant) the banner is stored but the success flag is not set
try_banner_recv_banner_without_success(out, net) ==
    CASE net.recv = "data" ->
           IF net.data # <<>>
           THEN [out EXCEPT !.banner = Some(strip(decode_ignore(net.data)))]
           ELSE [out EXCEPT !.banner = None]
      [] net.recv = "timeout" -> [out EXCEPT !.error = Some(<<"recv_timeout">>)]
      [] OTHER -> [out EXCEPT !.error = Some(<<"recv_error: ", str(recv_exc(net))>>)]

\* lines 70-83
try_banner_recv(out, net) ==
    CASE net.recv = "data" ->
           IF net.data # <<>>
           THEN [out EXCEPT !.banner = Some(strip(decode_ignore(net.data))),
                            !.success = TRUE]
           ELSE [out EXCEPT !.banner = None]
      [] net.recv = "timeout" -> [out EXCEPT !.error = Some(<<"recv_timeout">>)]
      [] OTHER -> [out EXCEPT !.error = Some(<<"recv_error: ", str(recv_exc(net))>>)]

\* line 94: time.time() - start, the time the calls made have taken
\* (mutant) the time of a step is counted whether or not the step is made
try_banner_elapsed_counting_skipped(port, http_probe, use_ssl, net) ==
    IF net.sock = "raise" THEN 0
    ELSE net.dur.connect + net.dur.wrap + net.dur.send + net.dur.recv

try_banner_elapsed(port, http_probe, use_ssl, net) ==
    IF net.sock = "raise" THEN 0
    ELSE IF net.connect # "ok" THEN net.dur.connect
    ELSE net.dur.connect
         + (IF tls_attempted(port, use_ssl) THEN net.dur.wrap ELSE 0)
         + (IF http_attempted(port, http_probe) THEN net.dur.send ELSE 0)
         + net.dur.recv

\* (mutant) "except Exception" placed before "except socket.timeout"
try_banner_except_unordered(e) == Some(<<"connect_error: ", str(e)>>)

\* lines 84-87: the handlers of the outer try, for the exception e of
\* socket(), settimeout() or connect()
try_banner_except(e) ==
    IF e.cls = "socket.timeout" THEN Some(<<"connect_timeout">>)
    ELSE Some(<<"connect_error: ", str(e)>>)

try_banner(host, port, timeout, http_probe, use_ssl, net) ==
    LET out == [host |-> host, port |-> port, success |-> FALSE, banner |-> None,
                error |-> None, elapsed_ms |-> None,
                probing |-> IF http_probe /\ port \in HTTP_PORTS THEN "http" ELSE "tcp"]
        body ==
            IF net.sock = "raise"
            THEN [out EXCEPT !.error = try_banner_except(SocketExc)]
            ELSE IF net.connect # "ok"
            THEN [out EXCEPT !.error = try_banner_except(connect_exc(net))]
            ELSE try_banner_recv(try_banner_wrap(out, use_ssl, net), net)
    IN  [body EXCEPT !.elapsed_ms = Some(try_banner_elapsed(port, http_probe, use_ssl, net))]

(***************************************************************************)
(* day9/ping_sweeper.py                                                    *)
(***************************************************************************)
ping_icmp(host, timeout, net) == net.ping = "reply"

tcp_probe(host, port, timeout, net) == net.sock = "ok" /\ net.connect = "ok"

scan_ip(ip, mode, tcp_port, timeout, delay, net) ==
    IF mode = "icmp"
    THEN [ip |-> ip, alive |-> ping_icmp(ip, timeout, net), method |-> mode]
    ELSE [ip |-> ip, alive |-> tcp_probe(ip, tcp_port, timeout, net),
          method |-> mode, port |-> tcp_port]

\* (mutant) the sleep is made whatever the delay
scan_ip_sleeps_always(delay) == TRUE

\* lines 71-73: scan_ip sleeps before it returns; time.sleep raises ValueError
\* on a negative length
scan_ip_sleeps(delay) == delay # 0
sleep_raises(delay) == delay < 0

(***************************************************************************)
(* A call of a probe function: how it ends.                                *)
(***************************************************************************)
DefaultArgs ==
    [host |-> "a", port |-> 80, timeout |-> MaxTimeout, do_banner |-> FALSE,
     http_probe |-> TRUE, use_ssl |-> FALSE, ip |-> <<"10.0.0", 1>>,
     mode |-> "icmp", tcp_port |-> 80, delay |-> 0]

Returned(r) == [result |-> Some(r), exception |-> None]
Raised(e) == [result |-> None, exception |-> Some(e)]

call(fn, a, net) ==
    IF net.fault # None THEN Raised(net.fault[1])
    ELSE CASE fn = "scan_port" ->
                Returned(scan_port(a.host, a.port, a.timeout, a.do_banner, net))
           [] fn = "try_banner" ->
                Returned(try_banner(a.host, a.port, a.timeout, a.http_probe,
                                    a.use_ssl, net))
           [] OTHER ->
                IF scan_ip_sleeps(a.delay) /\ sleep_raises(a.delay)
                THEN Raised(SleepExc)
                ELSE Returned(scan_ip(a.ip, a.mode, a.tcp_port, a.timeout,
                                      a.delay, net))

(***************************************************************************)
(* The calls of the transport an invocation makes, in the order it makes   *)
(* them.                                                                   *)
(***************************************************************************)
\* (mutant) the banner exchange is made whether or not do_banner is set
scan_port_calls_always_banner(do_banner, net) ==
    IF net.sock = "raise" THEN <<"socket">>
    ELSE <<"socket", "settimeout", "connect_ex">>
         \o (IF net.connect # "raise" /\ connect_ex(net) = 0
             THEN <<"settimeout", "sendall", "recv">>
             ELSE <<>>)
         \o <<"close">>

\* port_scan.py lines 42-63; the with block closes the socket
scan_port_calls(do_banner, net) ==
    IF net.sock = "raise" THEN <<"socket">>
    ELSE <<"socket", "settimeout", "connect_ex">>
         \o (IF net.connect # "raise" /\ connect_ex(net) = 0 /\ do_banner
             THEN <<"settimeout", "sendall", "recv">>
             ELSE <<>>)
         \o <<"close">>

\* (mutant) a connect that fails is tried once more
try_banner_calls_retry_connect(port, http_probe, use_ssl, net) ==
    IF net.sock = "raise" THEN <<"socket">>
    ELSE <<"socket", "settimeout", "connect">>
         \o (IF net.connect = "ok"
             THEN (IF tls_attempted(port, use_ssl) THEN <<"wrap_socket">> ELSE <<>>)
                  \o (IF http_attempted(port, http_probe) THEN <<"sendall">> ELSE <<>>)
                  \o <<"recv">>
             ELSE <<"connect">>)
         \o <<"close">>

\* (mutant) a HEAD request that fails ends the probe: nothing is read
try_banner_calls_send_aborts(port, http_probe, use_ssl, net) ==
    IF net.sock = "raise" THEN <<"socket">>
    ELSE <<"socket", "settimeout", "connect">>
         \o (IF net.connect = "ok"
             THEN (IF tls_attempted(port, use_ssl) THEN <<"wrap_socket">> ELSE <<>>)
                  \o (IF http_attempted(port, http_probe)
                      THEN (IF net.send = "raise" THEN <<"sendall">>
                            ELSE <<"sendall", "recv">>)
                      ELSE <<"recv">>)
             ELSE <<>>)
         \o <<"close">>

\* banner_grab.py lines 45-93
try_banner_calls(port, http_probe, use_ssl, net) ==
    IF net.sock = "raise" THEN <<"socket">>
    ELSE <<"socket", "settimeout", "connect">>
         \o (IF net.connect = "ok"
             THEN (IF tls_attempted(port, use_ssl) THEN <<"wrap_socket">> ELSE <<>>)
                  \o (IF http_attempted(port, http_probe) THEN <<"sendall">> ELSE <<>>)
                  \o <<"recv">>
             ELSE <<>>)
         \o <<"close">>

\* ping_sweeper.py lines 51-54
tcp_probe_calls(net) ==
    IF net.sock = "raise" THEN <<"socket">>
    ELSE <<"socket", "settimeout", "connect", "close">>

\* ping_sweeper.py line 41: one ping, sending one echo request (-c 1, -n 1)
ping_icmp_calls(net) == <<"ping">>

\* ping_sweeper.py lines 64-73
scan_ip_calls(mode, delay, net) ==
    (IF mode = "icmp" THEN ping_icmp_calls(net) ELSE tcp_probe_calls(net))
    \o (IF scan_ip_sleeps(delay) THEN <<"sleep">> ELSE <<>>)

calls(fn, a, net) ==
    IF net.fault # None THEN <<>>
    ELSE CASE fn = "scan_port" -> scan_port_calls(a.do_banner, net)
           [] fn = "try_banner" ->
                try_banner_calls(a.port, a.http_probe, a.use_ssl, net)
           [] OTHER -> scan_ip_calls(a.mode, a.delay, net)

(***************************************************************************)
(* The inputs of a run.                                                    *)
(***************************************************************************)
\* the ports a port specification may name; parse_ports returns them sorted
\* ascending and without duplicates
PortUniverse == {22, 80, 443}
\* the targets a targets file or --host/--ports may name
BulkUniverse == {<<"a", 80>>, <<"a", 443>>}
\* the target lists of run_bulk: in any order, a target named again only after
\* another one (the third entry of a list repeats the first)
BulkLists ==
    {s \in SeqsUpTo(BulkUniverse, MaxTargets) :
        s # <<>> /\ \A i \in 1..(Len(s) - 1) : s[i] # s[i + 1]}

RECURSIVE SortedSeq(_)
SortedSeq(S) ==
    IF S = {} THEN <<>>
    ELSE LET m == CHOOSE x \in S : \A y \in S : x <= y
         IN  <<m>> \o SortedSeq(S \ {m})

DefaultCfg ==
    [host |-> "a", timeout |-> MaxTimeout, workers |-> 1, do_banner |-> FALSE,
     http_probe |-> TRUE, ssl_force |-> FALSE, subnet_prefix |-> "10.0.0",
     mode |-> "icmp", tcp_port |-> 80, delay |-> 0]

\* (mutant) the whole /24, network and broadcast address included
sweep_hosts_whole_subnet == range(0, 256)

\* line 81 of ping_sweeper.py: range(1, 255)
sweep_hosts == range(1, 255)

\* line 81: f"{subnet_prefix}.{i}" for each i of the range
sweep_all_ips(subnet_prefix) ==
    [k \in 1..Len(sweep_hosts) |-> <<subnet_prefix, sweep_hosts[k]>>]

\* the addresses a run of the model sweeps: the first MaxTargets of them
sweep_ips(subnet_prefix) == SubSeq(sweep_all_ips(subnet_prefix), 1, MaxTargets)

\* what the transport answers in the scheduler specifications
SchedNets ==
    { DefaultNet,
      [DefaultNet EXCEPT !.connect = "refused", !.ping = "noreply"],
      [DefaultNet EXCEPT !.fault = Some(MemoryExc)] }

(***************************************************************************)
(* Texts.  A text is the tuple of its characters; " " stands for any       *)
(* whitespace character (the end of a line included).                      *)
(***************************************************************************)
Digits == {"0", "1", "2", "3", "4", "5", "6", "7", "8", "9"}
DigitValue(c) ==
    CASE c = "0" -> 0 [] c = "1" -> 1 [] c = "2" -> 2 [] c = "3" -> 3
      [] c = "4" -> 4 [] c = "5" -> 5 [] c = "6" -> 6 [] c = "7" -> 7
      [] c = "8" -> 8 [] c = "9" -> 9

\* c in t
contains(t, c) == \E k \in 1..Len(t) : t[k] = c
\* t.find(c), from 1, for c in t
find(t, c) == CHOOSE k \in 1..Len(t) : t[k] = c /\ \A j \in 1..(k - 1) : t[j] # c
\* t.split(c, 1), for c in t
split1(t, c) == <<SubSeq(t, 1, find(t, c) - 1), SubSeq(t, find(t, c) + 1, Len(t))>>
\* t.split(c)
RECURSIVE split(_, _)
split(t, c) ==
    IF contains(t, c)
    THEN <<split1(t, c)[1]>> \o split(split1(t, c)[2], c)
    ELSE <<t>>

\* int(t): surrounding whitespace and one sign are allowed, then decimal
\* digits, at least one; anything else raises ValueError
unsigned(t) == IF t # <<>> /\ t[1] \in {"+", "-"} THEN Tail(t) ELSE t
int_ok(t) ==
    LET d == unsigned(strip(t))
    IN  d # <<>> /\ \A k \in 1..Len(d) : d[k] \in Digits
RECURSIVE digits_value(_)
digits_value(d) ==
    IF d = <<>> THEN 0
    ELSE 10 * digits_value(SubSeq(d, 1, Len(d) - 1)) + DigitValue(d[Len(d)])
int(t) ==
    LET u == strip(t)
    IN  IF u[1] = "-" THEN 0 - digits_value(unsigned(u)) ELSE digits_value(unsigned(u))
ValueErrorExc == Exc("ValueError", "invalid literal for int() with base 10")
OpenExc == Exc("FileNotFoundError", "[Errno 2] No such file or directory")

(***************************************************************************)
(* Enumeration: parse_ports of port_scan.py and of banner_grab.py,         *)
(* read_targets_file, build_targets_from_args and what main does with them.*)
(***************************************************************************)
\* (mutant) range(int(a), int(b)): the upper end left out
part_ports_exclusive_end(part) ==
    LET p == strip(part)
    IN  IF contains(p, "-")
        THEN LET ab == split1(p, "-")
             IN  IF int_ok(ab[1]) /\ int_ok(ab[2])
                 THEN Returned(elements(range(int(ab[1]), int(ab[2]))))
                 ELSE Raised(ValueErrorExc)
        ELSE IF int_ok(p) THEN Returned({int(p)}) ELSE Raised(ValueErrorExc)

\* the body of the for loop of parse_ports: the ports one part adds to the
\* set, or the ValueError of int()
part_ports(part) ==
    LET p == strip(part)
    IN  IF contains(p, "-")
        THEN LET ab == split1(p, "-")
             IN  IF int_ok(ab[1]) /\ int_ok(ab[2])
                 THEN Returned(elements(range(int(ab[1]), int(ab[2]) + 1)))
                 ELSE Raised(ValueErrorExc)
        ELSE IF int_ok(p) THEN Returned({int(p)}) ELSE Raised(ValueErrorExc)

\* (mutant) sorted(ports): the ports outside 1..65535 are kept
parse_ports_loop_unfiltered(ports_arg) ==
    LET parts == split(ports_arg, ",")
        added == [k \in 1..Len(parts) |-> part_ports(parts[k])]
    IN  IF \E k \in 1..Len(parts) : added[k].exception # None
        THEN Raised(ValueErrorExc)
        ELSE Returned(SortedSeq(UNION {added[k].result[1] : k \in 1..Len(parts)}))

\* the set, the for loop and the sorted(...) of parse_ports, the same in
\* both files
parse_ports_loop(ports_arg) ==
    LET parts == split(ports_arg, ",")
        added == [k \in 1..Len(parts) |-> part_ports(parts[k])]
    IN  IF \E k \in 1..Len(parts) : added[k].exception # None
        THEN Raised(ValueErrorExc)
        ELSE Returned(SortedSeq({p \in UNION {added[k].result[1] : k \in 1..Len(parts)} :
                                    1 <= p /\ p <= 65535}))

\* (mutant) the default is range(1, 100)
parse_ports_default_exclusive(ports_arg) ==
    IF ports_arg = None \/ ports_arg = Some(<<>>)
    THEN Returned(range(1, 100))
    ELSE parse_ports_loop(ports_arg[1])

\* port_scan.py
parse_ports(ports_arg) ==
    IF ports_arg = None \/ ports_arg = Some(<<>>)
    THEN Returned(range(1, 101))
    ELSE parse_ports_loop(ports_arg[1])

\* banner_grab.py
banner_grab_parse_ports(ports_arg) ==
    IF ports_arg = None \/ ports_arg = Some(<<>>)
    THEN Returned(<<>>)
    ELSE parse_ports_loop(ports_arg[1])

\* (mutant) only the blank lines are skipped, not the comments
line_targets_keeping_comments(line) ==
    LET l == strip(line)
    IN  IF l = <<>> THEN Returned(<<>>)
        ELSE IF contains(l, ":")
        THEN LET hp == split1(l, ":")
             IN  IF int_ok(strip(hp[2]))
                 THEN Returned(<<<<strip(hp[1]), int(strip(hp[2]))>>>>)
                 ELSE Raised(ValueErrorExc)
        ELSE Returned(<<<<l, 80>>>>)

\* the body of the for loop of read_targets_file for one line: nothing
\* (a line skipped), one target, or the ValueError of int()
line_targets(line) ==
    LET l == strip(line)
    IN  IF l = <<>> \/ l[1] = "#" THEN Returned(<<>>)
        ELSE IF contains(l, ":")
        THEN LET hp == split1(l, ":")
             IN  IF int_ok(strip(hp[2]))
                 THEN Returned(<<<<strip(hp[1]), int(strip(hp[2]))>>>>)
                 ELSE Raised(ValueErrorExc)
        ELSE Returned(<<<<l, 80>>>>)

RECURSIVE concat(_)
concat(ss) == IF ss = <<>> THEN <<>> ELSE Head(ss) \o concat(Tail(ss))

\* (mutant) a line whose port is no integer is skipped
read_targets_file_skipping_bad_lines(path) ==
    IF ~path.readable THEN Raised(OpenExc)
    ELSE LET read == [k \in 1..Len(path.lines) |-> line_targets(path.lines[k])]
         IN  Returned(concat([k \in 1..Len(path.lines) |->
                                 IF read[k].exception # None THEN <<>>
                                 ELSE read[k].result[1]]))

\* path stands for the file it names: whether open() succeeds, and its
\* lines
read_targets_file(path) ==
    IF ~path.readable THEN Raised(OpenExc)
    ELSE LET read == [k \in 1..Len(path.lines) |-> line_targets(path.lines[k])]
         IN  IF \E k \in 1..Len(path.lines) : read[k].exception # None
             THEN Raised(ValueErrorExc)
             ELSE Returned(concat([k \in 1..Len(path.lines) |-> read[k].result[1]]))

build_targets_from_args(host, ports_list) ==
    IF host = None \/ host = Some(<<>>) \/ ports_list = <<>> THEN <<>>
    ELSE [k \in 1..Len(ports_list) |-> <<host[1], ports_list[k]>>]

\* the command line: --host, --ports, --targets, --workers; None for an
\* option not given
DefaultArgv ==
    [host |-> Some(<<"a">>), ports |-> None, targets |-> None, workers |-> 1]

\* port_scan.py, main, line 102
port_scan_main_ports(args) == parse_ports(args.ports)

\* banner_grab.py, main, lines 159-163
banner_grab_main_targets(args) ==
    IF args.targets # None /\ args.targets[1].path # <<>>
    THEN read_targets_file(args.targets[1])
    ELSE LET ports == IF args.ports # None /\ args.ports # Some(<<>>)
                      THEN banner_grab_parse_ports(args.ports)
                      ELSE Returned(<<80>>)
         IN  IF ports.exception # None THEN ports
             ELSE Returned(build_targets_from_args(args.host, ports.result[1]))

\* the enumerating functions, by name
enumerate(fn, args) ==
    CASE fn = "port_scan.parse_ports" -> parse_ports(args.ports)
      [] fn = "banner_grab.parse_ports" -> banner_grab_parse_ports(args.ports)
      [] fn = "read_targets_file" -> read_targets_file(args.targets[1])
      [] fn = "port_scan.main" -> port_scan_main_ports(args)
      [] OTHER -> banner_grab_main_targets(args)

(***************************************************************************)
(* concurrent.futures, as the three run functions use it.                  *)
(***************************************************************************)
NewFuture == [state |-> "NONE", result |-> None, exception |-> None]
IdleThread == [state |-> "idle", item |-> 0, held |-> None]

N == Len(targets)
Finished == {i \in 1..N : fut[i].state = "FINISHED"}
Executing == {w \in 1..Len(threads) : threads[w].state # "idle"}
Yielded == {yielded[k] : k \in 1..Len(yielded)}

\* (mutant) no second thread is ever started
adjust_thread_count_one_thread(ths, sem, max_workers) ==
    IF sem > 0 THEN [threads |-> ths, idle_sem |-> sem - 1]
    ELSE IF Len(ths) < 1
    THEN [threads |-> Append(ths, IdleThread), idle_sem |-> sem]
    ELSE [threads |-> ths, idle_sem |-> sem]

\* (mutant) a thread is started for every work item, whatever max_workers
adjust_thread_count_unbounded(ths, sem, max_workers) ==
    IF sem > 0 THEN [threads |-> ths, idle_sem |-> sem - 1]
    ELSE [threads |-> Append(ths, IdleThread), idle_sem |-> sem]

\* ThreadPoolExecutor._adjust_thread_count: a free idle worker is reused,
\* otherwise a thread is started while fewer than max_workers exist
adjust_thread_count(ths, sem, max_workers) ==
    IF sem > 0 THEN [threads |-> ths, idle_sem |-> sem - 1]
    ELSE IF Len(ths) < max_workers
    THEN [threads |-> Append(ths, IdleThread), idle_sem |-> sem]
    ELSE [threads |-> ths, idle_sem |-> sem]

\* ex.submit(probe, ...): the probe function of this run and its arguments
\* for target t
probe_fn ==
    CASE prog = "run_scan" -> "scan_port"
      [] prog = "run_bulk" -> "try_banner"
      [] OTHER -> "scan_ip"
probe_args(t) ==
    CASE prog = "run_scan" ->
           [DefaultArgs EXCEPT !.host = cfg.host, !.port = t,
                               !.timeout = cfg.timeout, !.do_banner = cfg.do_banner]
      [] prog = "run_bulk" ->
           [DefaultArgs EXCEPT !.host = t[1], !.port = t[2],
                               !.timeout = cfg.timeout,
                               !.http_probe = cfg.http_probe,
                               !.use_ssl = cfg.ssl_force]
      [] OTHER ->
           [DefaultArgs EXCEPT !.ip = t, !.mode = cfg.mode, !.tcp_port = cfg.tcp_port,
                               !.timeout = cfg.timeout, !.delay = cfg.delay]

\* (mutant) the synthesized outcome carries no error
synthesized_without_error(t, e) ==
    CASE prog = "run_scan" ->
           [port |-> t, open |-> FALSE, banner |-> None, error |-> None]
      [] prog = "run_bulk" ->
           [host |-> t[1], port |-> t[2], success |-> FALSE, banner |-> None,
            error |-> None, elapsed_ms |-> None]
      [] OTHER ->
           [ip |-> t, alive |-> FALSE, error |-> None]

\* the outcome the calling thread builds when fut.result() raises e
synthesized(t, e) ==
    CASE prog = "run_scan" ->
           [port |-> t, open |-> FALSE, banner |-> None, error |-> Some(<<str(e)>>)]
      [] prog = "run_bulk" ->
           [host |-> t[1], port |-> t[2], success |-> FALSE, banner |-> None,
            error |-> Some(<<"exception:", str(e)>>), elapsed_ms |-> None]
      [] OTHER ->
           [ip |-> t, alive |-> FALSE, error |-> Some(<<str(e)>>)]

\* (mutant) no except clause: the outcome of a future that raised is lost
append_outcome_unless_raised(rs, i) ==
    IF fut[i].exception # None THEN rs ELSE Append(rs, fut[i].result[1])

\* (mutant) only the outcomes of open ports are kept
append_outcome_only_open(rs, i) ==
    IF fut[i].exception # None
    THEN Append(rs, synthesized(targets[i], fut[i].exception[1]))
    ELSE IF "open" \in DOMAIN fut[i].result[1] /\ ~fut[i].result[1].open
    THEN rs
    ELSE Append(rs, fut[i].result[1])

\* the body of the as_completed loop for future i: r = fut.result(), or the
\* synthesized outcome when it raises, and results.append(r)
append_outcome(rs, i) ==
    IF fut[i].exception # None
    THEN Append(rs, synthesized(targets[i], fut[i].exception[1]))
    ELSE Append(rs, fut[i].result[1])

\* sorted(results, key=lambda x: x["port"]): a stable sort
RECURSIVE insert_by_port(_, _)
insert_by_port(sorted, r) ==
    IF sorted = <<>> THEN <<r>>
    ELSE IF sorted[Len(sorted)].port <= r.port THEN Append(sorted, r)
    ELSE Append(insert_by_port(SubSeq(sorted, 1, Len(sorted) - 1), r),
                sorted[Len(sorted)])
RECURSIVE sorted_by_port(_)
sorted_by_port(rs) ==
    IF rs = <<>> THEN <<>>
    ELSE insert_by_port(sorted_by_port(SubSeq(rs, 1, Len(rs) - 1)), rs[Len(rs)])

\* datetime.utcnow(): time is counted in the events of the run that have
\* happened: the submissions, the starts and the ends of work items, and
\* the futures the calling thread has been handed
utcnow_at(nxt, futs, ys) ==
    (nxt - 1)
    + Cardinality({i \in 1..Len(futs) : futs[i].state \in {"RUNNING", "FINISHED"}})
    + Cardinality({i \in 1..Len(futs) : futs[i].state = "FINISHED"})
    + Len(ys)
utcnow == utcnow_at(next_i, fut, yielded)

\* (mutant) the summary holds the results in the order they were collected
run_scan_summary_unsorted(rs) ==
    [host |-> cfg.host, ports_scanned_count |-> Len(targets),
     timeout_sec |-> cfg.timeout, workers |-> cfg.workers,
     scanned_at |-> start[1], completed_at |-> utcnow, results |-> rs]

\* the value each run function returns; "end" is stamped when the with
\* block is left, which is when the summary is built
run_scan_summary(rs) ==
    [host |-> cfg.host, ports_scanned_count |-> Len(targets),
     timeout_sec |-> cfg.timeout, workers |-> cfg.workers,
     scanned_at |-> start[1], completed_at |-> utcnow,
     results |-> sorted_by_port(rs)]
sweep_summary(rs) ==
    [subnet |-> <<cfg.subnet_prefix, ".0/24">>, mode |-> cfg.mode,
     tcp_port |-> IF cfg.mode = "tcp" THEN Some(cfg.tcp_port) ELSE None,
     timeout_sec |-> cfg.timeout, delay_sec |-> cfg.delay,
     workers |-> cfg.workers,
     scanned_at |-> start[1], completed_at |-> utcnow, results |-> rs]
run_bulk_return(rs) == rs

returned(rs) ==
    CASE prog = "run_scan" -> run_scan_summary(rs)
      [] prog = "run_bulk" -> run_bulk_return(rs)
      [] OTHER -> sweep_summary(rs)

(***************************************************************************)
(* One run.                                                                *)
(***************************************************************************)
ProbeOff ==
    /\ p_pc = "off" /\ p_fn = "none" /\ p_args = DefaultArgs
    /\ p_net = DefaultNet /\ p_ret = None /\ p_calls = <<>>

EnumOff ==
    /\ e_pc = "off" /\ e_fn = "none" /\ e_arg = DefaultArgv /\ e_parts = <<>>
    /\ e_ret = None

InitRun ==
    /\ pc = "submit"
    /\ next_i = 1
    /\ queue = <<>>
    /\ threads = <<>>
    /\ idle_sem = 0
    /\ fut = [i \in 1..Len(targets) |-> NewFuture]
    /\ yielded = <<>>
    /\ results = <<>>
    /\ ret = None
    /\ made = [i \in 1..Len(targets) |-> <<>>]
    /\ start = Some(utcnow)

Init ==
    /\ prog \in {"run_scan", "run_bulk", "sweep"}
    /\ \E w \in 1..MaxWorkers :
         CASE prog = "run_scan" ->
                /\ \E S \in SUBSET PortUniverse, b \in BOOLEAN :
                     /\ Cardinality(S) <= MaxTargets
                     /\ targets = SortedSeq(S)
                     /\ cfg = [DefaultCfg EXCEPT !.workers = w, !.do_banner = b]
           [] prog = "run_bulk" ->
                /\ targets \in BulkLists
                /\ cfg = [DefaultCfg EXCEPT !.workers = w]
           [] OTHER ->
                /\ targets = sweep_ips(DefaultCfg.subnet_prefix)
                /\ \E m \in {"icmp", "tcp"}, d \in {-1, 0, 1} :
                     cfg = [DefaultCfg EXCEPT !.workers = w, !.mode = m, !.delay = d]
    /\ fate = [i \in 1..Len(targets) |-> None]
    /\ run = 1
    /\ first_ret = None
    /\ InitRun
    /\ ProbeOff
    /\ EnumOff

\* futures = {ex.submit(probe, ...): t for t in targets}, one target
submit ==
    /\ pc = "submit"
    /\ next_i <= N
    /\ fut' = [fut EXCEPT ![next_i].state = "PENDING"]
    /\ queue' = Append(queue, next_i)
    /\ LET a == adjust_thread_count(threads, idle_sem, cfg.workers)
       IN  threads' = a.threads /\ idle_sem' = a.idle_sem
    /\ next_i' = next_i + 1
    /\ UNCHANGED <<start, prog, cfg, targets, pc, fate, yielded, results, ret, run, first_ret,
                   made>>
    /\ UNCHANGED probe_vars
    /\ UNCHANGED enum_vars

\* the comprehension is over: for fut in as_completed(futures)
as_completed ==
    /\ pc = "submit"
    /\ next_i > N
    /\ pc' = "collect"
    /\ UNCHANGED <<start, prog, cfg, targets, next_i, queue, threads, idle_sem, fut, fate,
                   yielded, results, ret, run, first_ret, made>>
    /\ UNCHANGED probe_vars
    /\ UNCHANGED enum_vars

\* (mutant) the work queue hands out the work item put last
work_queue_get_lifo(q) == [item |-> q[Len(q)], rest |-> SubSeq(q, 1, Len(q) - 1)]

\* _work_queue.get() of _worker: the queue is a queue.SimpleQueue, first in
\* first out
work_queue_get(q) == [item |-> Head(q), rest |-> Tail(q)]

\* a worker thread takes the next work item and starts the probe
worker_get(w) ==
    /\ threads[w].state = "idle"
    /\ queue # <<>>
    /\ LET got == work_queue_get(queue)
       IN  /\ threads' = [threads EXCEPT ![w] = [state |-> "probing",
                                                 item |-> got.item, held |-> None]]
           /\ fut' = [fut EXCEPT ![got.item].state = "RUNNING"]
           /\ queue' = got.rest
           /\ made' = [made EXCEPT ![got.item] = Append(@, <<>>)]
    /\ UNCHANGED <<start, prog, cfg, targets, pc, next_i, idle_sem, fate, yielded, results,
                   ret, run, first_ret>>
    /\ UNCHANGED probe_vars
    /\ UNCHANGED enum_vars

\* (mutant) the worker thread itself appends what the probe returned to the
\* list of the calling thread
set_future_appending(w, i, result, exception) ==
    /\ fut' = [fut EXCEPT ![i] = [state |-> "FINISHED", result |-> result,
                                  exception |-> exception]]
    /\ threads' = [threads EXCEPT ![w] = IdleThread]
    /\ idle_sem' = idle_sem + 1
    /\ results' = IF result = None THEN results ELSE Append(results, result[1])

\* _WorkItem.run ends: the future gets the result or the exception, and the
\* worker is idle again; the list of the calling thread is not touched
set_future(w, i, result, exception) ==
    /\ fut' = [fut EXCEPT ![i] = [state |-> "FINISHED", result |-> result,
                                  exception |-> exception]]
    /\ threads' = [threads EXCEPT ![w] = IdleThread]
    /\ idle_sem' = idle_sem + 1
    /\ UNCHANGED results

\* the probe of worker w is over, the transport having answered net: the
\* call ends, unless scan_ip has its sleep to make first
probe_done(w, net) ==
    LET i == threads[w].item
        c == call(probe_fn, probe_args(targets[i]), net)
    IN  /\ fate' = [fate EXCEPT ![i] = Some(c)]
        /\ made' = [made EXCEPT ![i][Len(made[i])] =
                                   calls(probe_fn, probe_args(targets[i]), net)]
        /\ IF c.exception = None /\ probe_fn = "scan_ip" /\ scan_ip_sleeps(cfg.delay)
           THEN /\ threads' = [threads EXCEPT ![w].state = "sleeping",
                                              ![w].held = c.result]
                /\ UNCHANGED <<fut, idle_sem, results>>
           ELSE set_future(w, i, c.result, c.exception)

probe_return(w) ==
    /\ threads[w].state = "probing"
    /\ \E net \in SchedNets :
         /\ run = 2 => fate[threads[w].item]
                          = Some(call(probe_fn, probe_args(targets[threads[w].item]), net))
         /\ probe_done(w, net)
    /\ UNCHANGED <<start, prog, cfg, targets, pc, next_i, queue, yielded, ret, run,
                   first_ret>>
    /\ UNCHANGED probe_vars
    /\ UNCHANGED enum_vars

\* time.sleep(delay) of scan_ip is over, scan_ip returns
sleep_return(w) ==
    /\ threads[w].state = "sleeping"
    /\ set_future(w, threads[w].item, threads[w].held, None)
    /\ UNCHANGED <<start, prog, cfg, targets, pc, next_i, queue, fate, yielded, ret,
                   run, first_ret, made>>
    /\ UNCHANGED probe_vars
    /\ UNCHANGED enum_vars

\* the body of the as_completed loop, for one finished future
collect ==
    /\ pc = "collect"
    /\ \E i \in Finished \ Yielded :
         /\ yielded' = Append(yielded, i)
         /\ results' = append_outcome(results, i)
    /\ UNCHANGED <<start, prog, cfg, targets, pc, next_i, queue, threads, idle_sem, fut, fate,
                   ret, run, first_ret, made>>
    /\ UNCHANGED probe_vars
    /\ UNCHANGED enum_vars

\* (mutant) the loop ends with the first future that is handed out
as_completed_first_completed == yielded # <<>>

\* as_completed has handed out every future of the dict
as_completed_exhausted == Yielded = 1..N

\* as_completed is exhausted: the with block is left and the run returns
finish ==
    /\ pc = "collect"
    /\ as_completed_exhausted
    /\ ret' = Some(returned(results))
    /\ pc' = "done"
    /\ UNCHANGED <<start, prog, cfg, targets, next_i, queue, threads, idle_sem, fut, fate,
                   yielded, results, run, first_ret, made>>
    /\ UNCHANGED probe_vars
    /\ UNCHANGED enum_vars

\* the same run once more: same arguments, same answers of the transport
rerun ==
    /\ pc = "done"
    /\ run = 1
    /\ run' = 2
    /\ first_ret' = ret
    /\ pc' = "submit"
    /\ next_i' = 1
    /\ queue' = <<>>
    /\ threads' = <<>>
    /\ idle_sem' = 0
    /\ fut' = [i \in 1..N |-> NewFuture]
    /\ yielded' = <<>>
    /\ results' = <<>>
    /\ ret' = None
    /\ made' = [i \in 1..N |-> <<>>]
    /\ start' = Some(utcnow_at(1, fut', yielded'))
    /\ UNCHANGED <<prog, cfg, targets, fate>>
    /\ UNCHANGED probe_vars
    /\ UNCHANGED enum_vars

Next ==
    \/ submit
    \/ as_completed
    \/ \E w \in 1..Len(threads) : worker_get(w)
    \/ \E w \in 1..Len(threads) : probe_return(w)
    \/ \E w \in 1..Len(threads) : sleep_return(w)
    \/ collect
    \/ finish

Spec == Init /\ [][Next]_vars

NextTwoRuns == Next \/ rerun

SpecTwoRuns == Init /\ [][NextTwoRuns]_vars

(***************************************************************************)
(* SpecLive: one run under fair scheduling.  The calling thread and every  *)
(* worker thread go on whenever they can: a worker that waits on the work  *)
(* queue takes an item that is there, and a probe ends, every socket call  *)
(* having a timeout.  The probe the first worker thread runs is the        *)
(* exception: it may block for ever.                                       *)
(***************************************************************************)
FairCaller ==
    /\ WF_vars(submit) /\ WF_vars(as_completed)
    /\ WF_vars(collect) /\ WF_vars(finish)
FairWorkers ==
    /\ \A w \in 1..MaxWorkers : WF_vars(w <= Len(threads) /\ worker_get(w))
    /\ \A w \in 2..MaxWorkers : WF_vars(w <= Len(threads) /\ probe_return(w))

\* run_scan, and run_bulk over targets each named once
InitLive ==
    /\ Init
    /\ prog \in {"run_scan", "run_bulk"}
    /\ \A i, j \in 1..Len(targets) : i # j => targets[i] # targets[j]

\* neither run_scan nor run_bulk sleeps
NextLive ==
    \/ submit
    \/ as_completed
    \/ \E w \in 1..Len(threads) : worker_get(w)
    \/ \E w \in 1..Len(threads) : probe_return(w)
    \/ collect
    \/ finish

SpecLive == InitLive /\ [][NextLive]_vars /\ FairCaller /\ FairWorkers

(***************************************************************************)
(* One call of a probe function.                                           *)
(***************************************************************************)
Timeouts == 1..MaxTimeout
\* a blocking call returns at once or when its timeout expires
Durs(T) == {0, T}

\* the answers scan_port can get
ScanPortNets ==
    {[DefaultNet EXCEPT !.sock = "raise"]}
    \cup {[DefaultNet EXCEPT !.connect = c] : c \in {"refused", "timeout", "raise"}}
    \cup {[DefaultNet EXCEPT !.send = sd, !.recv = rc] :
            sd \in {"ok", "raise"}, rc \in {"timeout", "raise"}}
    \cup {[DefaultNet EXCEPT !.send = sd, !.data = d] :
            sd \in {"ok", "raise"}, d \in Datas}

\* the answers try_banner can get under timeout T; a call that times out
\* takes T
TryBannerNets(T) ==
    {[DefaultNet EXCEPT !.sock = "raise"]}
    \cup {[DefaultNet EXCEPT !.connect = "timeout", !.dur.connect = T]}
    \cup {[DefaultNet EXCEPT !.connect = c, !.dur.connect = dc] :
            c \in {"refused", "raise"}, dc \in Durs(T)}
    \cup {[DefaultNet EXCEPT !.wrap = wr, !.send = sd, !.recv = "timeout",
                             !.dur = [connect |-> dc, wrap |-> dw, send |-> ds,
                                      recv |-> T]] :
            wr \in {"ok", "raise"}, sd \in {"ok", "raise"},
            dc \in Durs(T), dw \in Durs(T), ds \in Durs(T)}
    \cup {[DefaultNet EXCEPT !.wrap = wr, !.send = sd, !.recv = "raise",
                             !.dur = [connect |-> dc, wrap |-> dw, send |-> ds,
                                      recv |-> dr]] :
            wr \in {"ok", "raise"}, sd \in {"ok", "raise"},
            dc \in Durs(T), dw \in Durs(T), ds \in Durs(T), dr \in Durs(T)}
    \cup {[DefaultNet EXCEPT !.wrap = wr, !.send = sd, !.data = d,
                             !.dur = [connect |-> dc, wrap |-> dw, send |-> ds,
                                      recv |-> dr]] :
            wr \in {"ok", "raise"}, sd \in {"ok", "raise"}, d \in Datas,
            dc \in Durs(T), dw \in Durs(T), ds \in Durs(T), dr \in Durs(T)}

\* the answers scan_ip can get
ScanIpNets ==
    {[DefaultNet EXCEPT !.ping = p] : p \in {"reply", "noreply", "raise"}}
    \cup {[DefaultNet EXCEPT !.sock = "raise"]}
    \cup {[DefaultNet EXCEPT !.connect = c] : c \in {"refused", "timeout", "raise"}}

\* the ports a probe function is called with: those of the runs and the
\* other ports try_banner tells apart (banner_grab.py lines 24 and 52)
ProbePorts == PortUniverse \cup {8000, 8080, 8443}

SchedOff ==
    /\ prog = "none" /\ cfg = DefaultCfg /\ targets = <<>> /\ pc = "off"
    /\ next_i = 1 /\ queue = <<>> /\ threads = <<>> /\ idle_sem = 0
    /\ fut = <<>> /\ fate = <<>> /\ yielded = <<>> /\ results = <<>>
    /\ ret = None /\ run = 1 /\ first_ret = None /\ made = <<>>
    /\ start = None

InitProbe ==
    /\ SchedOff
    /\ EnumOff
    /\ p_pc = "call"
    /\ p_ret = None
    /\ p_calls = <<>>
    /\ p_fn \in {"scan_port", "try_banner", "scan_ip"}
    /\ \E port \in ProbePorts, T \in Timeouts :
         CASE p_fn = "scan_port" ->
                /\ \E b \in BOOLEAN :
                     p_args = [DefaultArgs EXCEPT !.port = port, !.timeout = T,
                                                  !.do_banner = b]
                /\ p_net \in ScanPortNets
           [] p_fn = "try_banner" ->
                /\ \E h \in BOOLEAN, u \in BOOLEAN :
                     p_args = [DefaultArgs EXCEPT !.port = port, !.timeout = T,
                                                  !.http_probe = h, !.use_ssl = u]
                /\ p_net \in TryBannerNets(T)
           [] OTHER ->
                /\ \E m \in {"icmp", "tcp"}, d \in {-1, 0, 1} :
                     p_args = [DefaultArgs EXCEPT !.tcp_port = port, !.timeout = T,
                                                  !.mode = m, !.delay = d]
                /\ p_net \in ScanIpNets

\* the function is called and ends
call_probe ==
    /\ p_pc = "call"
    /\ p_ret' = Some(call(p_fn, p_args, p_net))
    /\ p_calls' = calls(p_fn, p_args, p_net)
    /\ p_pc' = "returned"
    /\ UNCHANGED <<p_fn, p_args, p_net>>
    /\ UNCHANGED sched_vars
    /\ UNCHANGED enum_vars

NextProbe == call_probe

SpecProbe == InitProbe /\ [][NextProbe]_vars

(***************************************************************************)
(* One call of an enumerating function.                                    *)
(***************************************************************************)
\* the parts a port specification is written from: integers (in range, out
\* of range, with whitespace around), ranges (ascending, descending,
\* crossing either end of 1..65535), and texts int() rejects
PartTexts ==
    { <<"2", "2">>, <<" ", "8", "0", " ">>, <<"0">>,
      <<"6", "5", "5", "3", "5">>, <<"6", "5", "5", "3", "6">>,
      <<"2", "0", "-", "2", "2">>, <<"2", "0", " ", "-", " ", "2", "2">>,
      <<"2", "2", "-", "2", "0">>, <<"0", "-", "1">>,
      <<"6", "5", "5", "3", "5", "-", "6", "5", "5", "3", "6">>,
      <<>>, <<"x">>, <<"-", "1">>, <<"1", "-">>, <<"1", "-", "2", "-", "3">> }

\* c.join(parts)
RECURSIVE join(_, _)
join(parts, c) ==
    IF Len(parts) = 1 THEN parts[1]
    ELSE parts[1] \o <<c>> \o join(Tail(parts), c)

PartLists == SeqsUpTo(PartTexts, MaxParts) \ {<<>>}

\* the lines of a targets file: blank, comment, host, host:port (with
\* whitespace around), and lines whose port int() rejects
LineTexts ==
    { <<>>, <<" ">>, <<"#", "c">>, <<" ", "#", "c">>,
      <<"a">>, <<" ", "a", " ">>, <<"a", "#">>,
      <<"a", ":", "8", "0">>, <<"a", ":", "4", "4", "3">>,
      <<" ", "a", " ", ":", " ", "8", "0", " ">>,
      <<"a", ":">>, <<"a", ":", "x">>, <<"a", ":", "8", "0", ":", "1">> }

Files ==
    {[path |-> <<"t">>, readable |-> FALSE, lines |-> <<>>]}
    \cup {[path |-> <<"t">>, readable |-> TRUE, lines |-> ls] :
            ls \in SeqsUpTo(LineTexts, MaxLines)}

\* e_arg and e_parts for --ports absent, and for --ports written from parts
NoPorts(argv) == e_arg = argv /\ e_parts = <<>>
PortsFrom(argv, PS) ==
    \E ps \in PS : /\ e_arg = [argv EXCEPT !.ports = Some(join(ps, ","))]
                   /\ e_parts = ps
TargetsFrom(argv, FS) ==
    \E f \in FS : e_arg = [argv EXCEPT !.targets = Some(f)] /\ e_parts = <<>>

InitEnum ==
    /\ SchedOff
    /\ ProbeOff
    /\ e_pc = "call"
    /\ e_ret = None
    /\ e_fn \in {"port_scan.parse_ports", "banner_grab.parse_ports",
                 "read_targets_file", "port_scan.main", "banner_grab.main"}
    /\ CASE e_fn = "read_targets_file" -> TargetsFrom(DefaultArgv, Files)
         [] e_fn = "banner_grab.main" ->
              \E h \in {None, Some(<<"a">>)} :
                  LET argv == [DefaultArgv EXCEPT !.host = h]
                  IN  \/ NoPorts(argv)
                      \/ PortsFrom(argv, PartLists)
                      \/ TargetsFrom(argv, Files)
         [] OTHER -> NoPorts(DefaultArgv) \/ PortsFrom(DefaultArgv, PartLists)

\* the function is called and returns or raises
enum_call ==
    /\ e_pc = "call"
    /\ LET r == enumerate(e_fn, e_arg)
       IN  /\ e_ret' = Some(r)
           /\ e_pc' = IF r.exception # None THEN "raised" ELSE "returned"
    /\ UNCHANGED <<e_fn, e_arg, e_parts>>
    /\ UNCHANGED sched_vars
    /\ UNCHANGED probe_vars

NextEnum == enum_call

SpecEnum == InitEnum /\ [][NextEnum]_vars

(***************************************************************************)
(* main of port_scan.py and of banner_grab.py: the enumeration, then the   *)
(* run over what was enumerated.                                           *)
(***************************************************************************)
\* port specifications and targets files that name at most three targets
MainPartLists ==
    { <<<<"2", "2">>>>, <<<<"2", "2">>, <<" ", "8", "0", " ">>>>,
      <<<<"2", "0", "-", "2", "2">>>>, <<<<"0">>>>,
      <<<<"x">>>>, <<<<"2", "2">>, <<"x">>>>, <<<<"1", "-">>>>, <<<<"2", "2">>, <<>>>> }
MainFiles ==
    {[path |-> <<"t">>, readable |-> FALSE, lines |-> <<>>]}
    \cup {[path |-> <<"t">>, readable |-> TRUE, lines |-> ls] :
            ls \in { << <<"a", ":", "8", "0">> >>,
                     << <<"a", ":", "8", "0">>, <<"a", ":", "4", "4", "3">> >>,
                     << <<"a", ":", "8", "0">>, <<"a", ":", "x">> >>,
                     << <<"a", ":">>, <<"a", ":", "8", "0">> >>,
                     << <<"#", "c">> >> }}

InitMain ==
    /\ SchedOff
    /\ ProbeOff
    /\ e_pc = "main"
    /\ e_ret = None
    /\ e_fn \in {"port_scan.main", "banner_grab.main"}
    /\ \E w \in 1..MaxWorkers :
         LET argv == [DefaultArgv EXCEPT !.workers = w]
         IN  \/ PortsFrom(argv, MainPartLists)
             \/ e_fn = "banner_grab.main" /\ NoPorts(argv)
             \/ e_fn = "banner_grab.main" /\ TargetsFrom(argv, MainFiles)

\* main up to the call of run_scan / run_bulk: the enumeration raises and
\* main ends with it, or banner_grab finds no target and returns, or the
\* run function is called with what was enumerated
main_enumerate ==
    /\ e_pc = "main"
    /\ LET r == enumerate(e_fn, e_arg)
       IN  /\ e_ret' = Some(r)
           /\ IF r.exception # None
              THEN e_pc' = "raised" /\ UNCHANGED sched_vars
              ELSE IF e_fn = "banner_grab.main" /\ r.result[1] = <<>>
              THEN e_pc' = "exit" /\ UNCHANGED sched_vars
              ELSE /\ e_pc' = "run"
                   /\ prog' = IF e_fn = "port_scan.main" THEN "run_scan" ELSE "run_bulk"
                   /\ cfg' = [DefaultCfg EXCEPT !.host = e_arg.host[1],
                                                !.workers = e_arg.workers]
                   /\ targets' = r.result[1]
                   /\ pc' = "submit"
                   /\ next_i' = 1
                   /\ fut' = [i \in 1..Len(r.result[1]) |-> NewFuture]
                   /\ fate' = [i \in 1..Len(r.result[1]) |-> None]
                   /\ made' = [i \in 1..Len(r.result[1]) |-> <<>>]
                   /\ start' = Some(utcnow_at(1, fut', yielded))
                   /\ UNCHANGED <<queue, threads, idle_sem, yielded, results, ret,
                                  run, first_ret>>
    /\ UNCHANGED <<e_fn, e_arg, e_parts>>
    /\ UNCHANGED probe_vars

\* neither run_scan nor run_bulk sleeps
NextMain ==
    \/ main_enumerate
    \/ submit
    \/ as_completed
    \/ \E w \in 1..Len(threads) : worker_get(w)
    \/ \E w \in 1..Len(threads) : probe_return(w)
    \/ collect
    \/ finish

SpecMain == InitMain /\ [][NextMain]_vars

(***************************************************************************)
(* Either of the two: a run, or one call of a probe function.              *)
(***************************************************************************)
InitAll == Init \/ InitProbe

NextAll == Next \/ NextProbe

SpecAll == InitAll /\ [][NextAll]_vars

(***************************************************************************)
(* Reading an outcome and a returned value.                                *)
(***************************************************************************)
\* the key of a target of this run, and the key an outcome carries
KeyOf(o) ==
    CASE prog = "run_scan" -> o.port
      [] prog = "run_bulk" -> <<o.host, o.port>>
      [] OTHER -> o.ip
\* succeeded: "open", "success" or "alive"
Succeeded(o) ==
    IF "open" \in DOMAIN o THEN o.open
    ELSE IF "success" \in DOMAIN o THEN o.success
    ELSE o.alive
\* the error of an outcome; None when the outcome has no such field
ErrorOf(o) == IF "error" \in DOMAIN o THEN o.error ELSE None
\* the outcomes of the value returned
Outcomes == IF prog = "run_bulk" THEN ret[1] ELSE ret[1].results
\* how often x occurs in the sequence s
Count(s, x) == Cardinality({k \in 1..Len(s) : s[k] = x})
Done == pc = "done"
SomeRaised == \E i \in 1..N : fut[i].state = "FINISHED" /\ fut[i].exception # None
SomeSucceeded ==
    \E i \in 1..N : /\ fut[i].state = "FINISHED"
                    /\ fut[i].result # None
                    /\ Succeeded(fut[i].result[1])

(***************************************************************************)
(* The claims.                                                             *)
(***************************************************************************)

\* C1: when run_scan, run_bulk or sweep has returned, the outcomes of the
\* returned value are as many as the targets submitted, and each target's key
\* occurs among them exactly as often as the target was submitted (once for
\* a list without repetition): none is missing, none appears twice over.
C1_OneOutcomePerTarget ==
    Done =>
        /\ Len(Outcomes) = Len(targets)
        /\ \A i \in 1..N :
             Count([k \in 1..Len(Outcomes) |-> KeyOf(Outcomes[k])], targets[i])
               = Count(targets, targets[i])
        /\ \A k \in 1..Len(Outcomes) : \E i \in 1..N : KeyOf(Outcomes[k]) = targets[i]

\* C1 witness: a run over MaxTargets targets has returned, one probe having
\* raised, another having succeeded, the futures yielded out of
\* submission order
C1_Witness ==
    /\ Done /\ N = MaxTargets
    /\ SomeRaised /\ SomeSucceeded
    /\ yielded[1] # 1

\* C2: at every moment of a run the probes being executed (worker threads
\* inside a work item, its sleep included) are at most max_workers, and so
\* are the worker threads.
C2_AtMostMaxWorkers ==
    pc # "off" =>
        /\ Cardinality(Executing) <= cfg.workers
        /\ Len(threads) <= cfg.workers

\* C2 witness: max_workers probes execute while further targets wait in the
\* queue
C2_Witness ==
    /\ pc # "off"
    /\ cfg.workers = MaxWorkers
    /\ Cardinality(Executing) = cfg.workers
    /\ queue # <<>>

\* C3: the results of the summary run_scan returns are in ascending order of
\* port, whatever the order in which the futures were yielded.
C3_ScanSortedByPort ==
    (Done /\ prog = "run_scan") =>
        \A j, k \in 1..Len(Outcomes) : j < k => Outcomes[j].port < Outcomes[k].port

\* C3 witness: run_scan has returned after collecting three outcomes in an
\* order that is not the order of their ports
C3_Witness ==
    /\ Done /\ prog = "run_scan" /\ Len(results) = 3
    /\ results[1].port > results[2].port

\* C4 (as claimed): the results of the summary sweep returns are in the
\* order of the addresses .1, .2, ... whatever the order in which the
\* futures were yielded.
C4_SweepSortedByAddress ==
    (Done /\ prog = "sweep") =>
        \A j, k \in 1..Len(Outcomes) : j < k => Outcomes[j].ip[2] < Outcomes[k].ip[2]

\* C5 (as claimed): two runs of run_bulk over the same targets, each target's
\* probe ending the same way in both, return the same sequence of outcomes.
C5_BulkOrderFixed ==
    (Done /\ prog = "run_bulk" /\ run = 2) => ret = first_ret

\* C7: the k-th outcome collected belongs to the k-th future yielded; when
\* that future raised, it is an outcome for that future's target with
\* succeeded false and an error set, and otherwise it is the very outcome the
\* probe returned; the run goes on to return an outcome for every target.
C7_RaisedProbeSynthesized ==
    pc # "off" =>
        /\ Len(results) = Len(yielded)
        /\ \A k \in 1..Len(results) :
             LET i == yielded[k]
             IN  IF fut[i].exception # None
                 THEN /\ KeyOf(results[k]) = targets[i]
                      /\ ~Succeeded(results[k])
                      /\ ErrorOf(results[k]) # None
                 ELSE results[k] = fut[i].result[1]
        /\ Done => Len(results) = N

\* C7 witness: run_scan or run_bulk has returned; the first future yielded
\* had raised, and a later one had returned a successful outcome
C7_Witness ==
    /\ Done /\ prog \in {"run_scan", "run_bulk"} /\ N >= 2
    /\ fut[yielded[1]].exception # None
    /\ \E k \in 2..N : /\ fut[yielded[k]].exception = None
                       /\ Succeeded(results[k])

\* C15: the list sweep has built when it starts to submit holds, for its
\* subnet prefix, the 254 addresses prefix.1 .. prefix.254 in this order (no
\* .0, no .255); the addresses a run probes are the leading ones of these,
\* and the report of a run, in icmp mode and in tcp mode, holds as many
\* outcomes as addresses probed, exactly one for each of them.
C15_SweepAddresses ==
    prog = "sweep" =>
        /\ (pc = "submit" /\ next_i = 1) =>
             LET ips == sweep_all_ips(cfg.subnet_prefix)
             IN  /\ Len(ips) = 254
                 /\ \A k \in 1..254 : ips[k] = <<cfg.subnet_prefix, k>>
        /\ \A i \in 1..N : targets[i] = <<cfg.subnet_prefix, i>>
        /\ Done =>
             /\ Len(Outcomes) = N
             /\ \A i \in 1..N :
                  Cardinality({k \in 1..Len(Outcomes) : Outcomes[k].ip = targets[i]}) = 1

\* C15 witness: a sweep in tcp mode has returned, the futures yielded out
\* of the order of the addresses
C15_Witness ==
    /\ Done /\ prog = "sweep" /\ cfg.mode = "tcp" /\ N = MaxTargets
    /\ yielded[1] # 1
    /\ Len(Outcomes) = MaxTargets

\* C19: in the summary run_scan returns, ports_scanned_count is the number
\* of outcomes in results (and the number of ports run_scan was given),
\* whatever the ports, the workers and the order of completion.
C19_CountEqualsOutcomes ==
    (Done /\ prog = "run_scan") =>
        /\ ret[1].ports_scanned_count = Len(ret[1].results)
        /\ ret[1].ports_scanned_count = Len(targets)

\* C19 witness: run_scan has returned for three ports, one probe having
\* raised and one having found its port closed
C19_Witness ==
    /\ Done /\ prog = "run_scan" /\ N = 3
    /\ ret[1].ports_scanned_count = 3
    /\ SomeRaised
    /\ \E i \in 1..N : fut[i].result # None /\ ~fut[i].result[1].open

(***************************************************************************)
(* Claims about one call of a probe function (SpecProbe).                  *)
(***************************************************************************)
ProbeReturned == p_pc = "returned"
\* the outcome the call returned (when it raised nothing)
Outcome == p_ret[1].result[1]
Connected == p_net.sock = "ok" /\ p_net.connect = "ok"
\* the TLS wrap of try_banner was attempted and failed
WrapFailed ==
    Connected /\ tls_attempted(p_args.port, p_args.use_ssl) /\ p_net.wrap = "raise"
\* the transport did not let the probe succeed
TransportFailed ==
    CASE p_fn = "scan_port" -> ~Connected
      [] p_fn = "try_banner" -> ~Connected \/ p_net.recv # "data"
      [] OTHER -> IF p_args.mode = "icmp" THEN p_net.ping # "reply" ELSE ~Connected
\* a text with at least one character
NonEmptyText(t) == \E k \in 1..Len(t) : t[k] # ""
\* the spec's ErrorKind of the error of an outcome
ErrorKind(o) ==
    IF ErrorOf(o) = None THEN "none"
    ELSE LET t == ErrorOf(o)[1]
         IN  CASE t[1] \in {"connect_timeout", "timed out"} -> "ConnectTimeout"
               [] t[1] = "connect_error: " -> "ConnectError"
               [] t[1] = "recv_timeout" -> "ReadTimeout"
               [] t[1] = "recv_error: " -> "ReadError"
               [] t[1] = "ssl_wrap_error: " -> "TLSError"
               [] OTHER -> "ConnectError"

C8_EmptyReadIsSuccess ==
    (ProbeReturned /\ p_fn = "try_banner" /\ Connected
       /\ p_net.recv = "data" /\ p_net.data = <<>>) =>
        Outcome.success /\ Outcome.banner = None

\* C8 (amended): try_banner, connected, the read returning no bytes: the
\* outcome has success false and no banner, and no read error is recorded:
\* error is null, or the TLS wrap error when the wrap had failed.
C8_EmptyReadNotSuccess ==
    (ProbeReturned /\ p_fn = "try_banner" /\ Connected
       /\ p_net.recv = "data" /\ p_net.data = <<>>) =>
        /\ ~Outcome.success
        /\ Outcome.banner = None
        /\ Outcome.error = IF WrapFailed THEN Some(<<"ssl_wrap_error: ", str(SSLExc)>>)
                           ELSE None

\* C8 witness: try_banner has returned after a connect and an empty read,
\* without a TLS failure
C8_Witness ==
    /\ ProbeReturned /\ p_fn = "try_banner" /\ Connected /\ ~WrapFailed
    /\ p_net.recv = "data" /\ p_net.data = <<>>
    /\ ~Outcome.success /\ Outcome.error = None

C10_TLSErrorKept ==
    (ProbeReturned /\ p_fn = "try_banner" /\ WrapFailed) =>
        Outcome.error = Some(<<"ssl_wrap_error: ", str(SSLExc)>>)

\* the calls among cs that exchange data on the connection
DataCalls(cs) == {k \in 1..Len(cs) : cs[k] \in {"sendall", "recv"}}
\* the calls among cs that attempt to reach the target
Attempts(cs) == {k \in 1..Len(cs) : cs[k] \in {"connect", "connect_ex", "ping"}}

\* C11: scan_port without banner and scan_ip in tcp mode (tcp_probe): open /
\* alive is true exactly when the socket was made and the connect completed
\* (not refused, not timed out, no exception), and the call has made no
\* sendall and no recv.
C11_ConnectOnly ==
    ProbeReturned =>
        /\ (p_fn = "scan_port" /\ ~p_args.do_banner) =>
              /\ p_ret[1].exception = None
              /\ Outcome.open <=> Connected
              /\ DataCalls(p_calls) = {}
        /\ (p_fn = "scan_ip" /\ p_args.mode = "tcp" /\ p_args.delay >= 0) =>
              /\ p_ret[1].exception = None
              /\ Outcome.alive <=> Connected
              /\ DataCalls(p_calls) = {}

\* C11 witness: scan_port without banner has returned open after socket,
\* settimeout, connect_ex and close, and nothing else
C11_Witness ==
    /\ ProbeReturned /\ p_fn = "scan_port" /\ ~p_args.do_banner /\ Connected
    /\ Outcome.open
    /\ p_calls = <<"socket", "settimeout", "connect_ex", "close">>

\* C20: in a run, the probe of each enumerated target is submitted once and
\* invoked at most once, exactly once when the run has returned; and an
\* invocation of a probe function, in a run or on its own, makes at most one
\* attempt to reach its target (one connect, connect_ex or ping), whatever
\* the transport answers.
C20_ProbedOnce ==
    /\ pc # "off" =>
          \A i \in 1..N :
              /\ Count(queue, i) + Len(made[i]) = (IF i < next_i THEN 1 ELSE 0)
              /\ Done => Len(made[i]) = 1
              /\ \A k \in 1..Len(made[i]) : Cardinality(Attempts(made[i][k])) <= 1
    /\ ProbeReturned =>
          /\ Cardinality(Attempts(p_calls)) <= 1
          /\ p_net.sock = "ok" => Cardinality(Attempts(p_calls)) = 1

\* C20 witness: a run over MaxTargets targets has returned, the probe of
\* some target having found the connect refused or the ping unanswered
C20_Witness ==
    /\ Done /\ N = MaxTargets
    /\ \E i \in 1..N :
          /\ fut[i].result # None
          /\ ~Succeeded(fut[i].result[1])
          /\ Cardinality(Attempts(made[i][1])) = 1

(***************************************************************************)
(* Claims about one call of an enumerating function (SpecEnum).            *)
(***************************************************************************)
EnumEnded == e_pc \in {"returned", "raised"}
EnumReturned == e_pc = "returned"
\* the list the call returned (when it raised nothing)
Enumerated == e_ret[1].result[1]
ParsePorts == {"port_scan.parse_ports", "banner_grab.parse_ports"}
\* s is in ascending order, no value twice
Ascending(s) == \A j, k \in 1..Len(s) : j < k => s[j] < s[k]
InRange(S) == {p \in S : 1 <= p /\ p <= 65535}

\* what each part of PartTexts says, read by hand: the ends a, b of a range
\* "a-b", or the value of an integer; None for what is neither
RangeEnds(t) ==
    CASE t = <<"2", "0", "-", "2", "2">> -> <<20, 22>>
      [] t = <<"2", "0", " ", "-", " ", "2", "2">> -> <<20, 22>>
      [] t = <<"2", "2", "-", "2", "0">> -> <<22, 20>>
      [] t = <<"0", "-", "1">> -> <<0, 1>>
      [] t = <<"6", "5", "5", "3", "5", "-", "6", "5", "5", "3", "6">> -> <<65535, 65536>>
      [] OTHER -> None
IntegerValue(t) ==
    CASE t = <<"2", "2">> -> Some(22)
      [] t = <<" ", "8", "0", " ">> -> Some(80)
      [] t = <<"0">> -> Some(0)
      [] t = <<"6", "5", "5", "3", "5">> -> Some(65535)
      [] t = <<"6", "5", "5", "3", "6">> -> Some(65536)
      [] OTHER -> None
IsRange(t) == RangeEnds(t) # None
IsInteger(t) == IntegerValue(t) # None
WellFormed(ps) == ps # <<>> /\ \A k \in 1..Len(ps) : IsRange(ps[k]) \/ IsInteger(ps[k])
Listed(ps) ==
    UNION {IF IsRange(ps[k]) THEN RangeEnds(ps[k])[1]..RangeEnds(ps[k])[2]
           ELSE {IntegerValue(ps[k])[1]} : k \in 1..Len(ps)}

\* C12: parse_ports (of port_scan.py and of banner_grab.py) called with a
\* specification that is one range "a-b", a and b decimal integers without
\* sign, returns a list in ascending order, no value twice, whose values are
\* exactly the integers of a..b that lie within 1..65535.
C12_RangeParsed ==
    (EnumEnded /\ e_fn \in ParsePorts /\ Len(e_parts) = 1 /\ IsRange(e_parts[1])) =>
        /\ e_ret[1].exception = None
        /\ Ascending(Enumerated)
        /\ elements(Enumerated)
             = InRange(RangeEnds(e_parts[1])[1]..RangeEnds(e_parts[1])[2])

\* C12 witness: parse_ports has returned [20, 21, 22] for "20 - 22"
C12_Witness ==
    /\ EnumReturned /\ e_fn \in ParsePorts
    /\ e_parts = <<<<"2", "0", " ", "-", " ", "2", "2">>>>
    /\ Enumerated = <<20, 21, 22>>

\* C13: parse_ports called with a comma-separated specification whose parts
\* are integers and ranges returns, without raising, a list in ascending
\* order, no value twice, whose values are exactly the listed ports that lie
\* within 1..65535: the listed values below 1 or above 65535 are left out.
C13_ListParsed ==
    (EnumEnded /\ e_fn \in ParsePorts /\ WellFormed(e_parts)) =>
        /\ e_ret[1].exception = None
        /\ Ascending(Enumerated)
        /\ elements(Enumerated) = InRange(Listed(e_parts))

\* C13 witness: parse_ports has returned [1, 65535] for "0-1,65535-65536"
C13_Witness ==
    /\ EnumReturned /\ e_fn \in ParsePorts
    /\ e_parts = << <<"0", "-", "1">>,
                    <<"6", "5", "5", "3", "5", "-", "6", "5", "5", "3", "6">> >>
    /\ Enumerated = <<1, 65535>>

\* the specification is absent (--ports not given) or empty, and no targets
\* file is given
NoSpecification == e_arg.ports \in {None, Some(<<>>)} /\ e_arg.targets = None
OneToHundred(s) == Len(s) = 100 /\ \A k \in 1..100 : s[k] = k

\* C14 (as claimed): with an empty or absent port specification, the ports
\* enumerated are 1..100: by parse_ports of port_scan.py and the main that
\* calls it, and by the main of banner_grab.py (whose targets are then the
\* given host with each port of 1..100; it calls its parse_ports only for a
\* specification that is not empty).
C14_DefaultRangeEverywhere ==
    (EnumEnded /\ NoSpecification /\ e_arg.host # None
       /\ e_fn # "banner_grab.parse_ports") =>
        /\ e_ret[1].exception = None
        /\ IF e_fn = "banner_grab.main"
           THEN /\ OneToHundred([k \in 1..Len(Enumerated) |-> Enumerated[k][2]])
                /\ \A k \in 1..Len(Enumerated) : Enumerated[k][1] = e_arg.host[1]
           ELSE OneToHundred(Enumerated)

\* C14 (amended): with an empty or absent port specification, parse_ports
\* of port_scan.py, and the main that calls it, enumerate the ports 1..100;
\* parse_ports of banner_grab.py returns the empty list, and the main of
\* banner_grab.py enumerates the single target (host, 80), or no target when
\* no host is given.
C14_DefaultRangePortScanOnly ==
    (EnumEnded /\ NoSpecification) =>
        /\ e_ret[1].exception = None
        /\ CASE e_fn \in {"port_scan.parse_ports", "port_scan.main"} ->
                  OneToHundred(Enumerated)
             [] e_fn = "banner_grab.parse_ports" -> Enumerated = <<>>
             [] e_fn = "banner_grab.main" ->
                  Enumerated = IF e_arg.host = None THEN <<>>
                               ELSE <<<<e_arg.host[1], 80>>>>
             [] OTHER -> FALSE

\* C14 witness: parse_ports of port_scan.py has returned for the empty
\* specification, a list of 100 ports from 1 to 100
C14_Witness ==
    /\ EnumReturned /\ e_fn = "port_scan.parse_ports" /\ e_arg.ports = Some(<<>>)
    /\ Len(Enumerated) = 100 /\ Enumerated[1] = 1 /\ Enumerated[100] = 100

\* what each line of LineTexts says, read by hand: None for a line that
\* names no target (blank, comment, or a port that is no integer)
LineTarget(t) ==
    CASE t = <<"a">> -> Some(<<<<"a">>, 80>>)
      [] t = <<" ", "a", " ">> -> Some(<<<<"a">>, 80>>)
      [] t = <<"a", "#">> -> Some(<<<<"a", "#">>, 80>>)
      [] t = <<"a", ":", "8", "0">> -> Some(<<<<"a">>, 80>>)
      [] t = <<"a", ":", "4", "4", "3">> -> Some(<<<<"a">>, 443>>)
      [] t = <<" ", "a", " ", ":", " ", "8", "0", " ">> -> Some(<<<<"a">>, 80>>)
      [] OTHER -> None
Skipped(t) == t \in {<<>>, <<" ">>, <<"#", "c">>, <<" ", "#", "c">>}
FileLines == e_arg.targets[1].lines
Kept == {k \in 1..Len(FileLines) : ~Skipped(FileLines[k])}
ReadsFile ==
    /\ e_fn \in {"read_targets_file", "banner_grab.main"}
    /\ e_arg.targets # None
    /\ e_arg.targets[1].readable

\* C16: read_targets_file, for a readable file whose lines are blank,
\* comments, or name a target (host, or host:port with an integer port),
\* returns without raising one target per line that is neither blank nor a
\* comment, in the order of the lines: (line, 80) for a line without ':',
\* (text before the first ':', integer after it) for a line with ':',
\* whitespace around the line, the host and the port left out.
C16_FileParsed ==
    (EnumEnded /\ ReadsFile
       /\ \A k \in Kept : LineTarget(FileLines[k]) # None) =>
        /\ e_ret[1].exception = None
        /\ Len(Enumerated) = Cardinality(Kept)
        /\ \A k \in Kept :
             Enumerated[Cardinality({j \in Kept : j <= k})] = LineTarget(FileLines[k])[1]

\* C16 witness: read_targets_file has returned the one target a:443 for a
\* file whose first line is a comment and whose second line is "a:443"
C16_Witness ==
    /\ EnumReturned /\ e_fn = "read_targets_file"
    /\ FileLines = << <<"#", "c">>, <<"a", ":", "4", "4", "3">> >>
    /\ Enumerated = << <<<<"a">>, 443>> >>

\* C17 (as claimed): the list an enumerating function returns holds no
\* target twice.
C17_NoDuplicateTargets ==
    EnumReturned =>
        \A j, k \in 1..Len(Enumerated) : j # k => Enumerated[j] # Enumerated[k]

(***************************************************************************)
(* Claims about main (SpecMain).                                           *)
(***************************************************************************)
\* the specification or the file main enumerates from, read by hand: a part
\* of the port specification is neither an integer nor a range, the file
\* cannot be opened, or a line of it names a port that is no integer
BadSpecification ==
    /\ e_arg.ports \notin {None, Some(<<>>)}
    /\ \E k \in 1..Len(e_parts) : ~IsRange(e_parts[k]) /\ ~IsInteger(e_parts[k])
BadFile ==
    \/ ~e_arg.targets[1].readable
    \/ \E k \in Kept : LineTarget(FileLines[k]) = None
EnumerationFails ==
    IF e_fn = "banner_grab.main" /\ e_arg.targets # None THEN BadFile
    ELSE BadSpecification
NothingDispatched ==
    /\ pc = "off" /\ targets = <<>> /\ fut = <<>> /\ queue = <<>>
    /\ threads = <<>> /\ made = <<>> /\ results = <<>>

\* C18: when main enumerates from a port specification with a malformed
\* part, from a targets file with a line whose port is no integer, or from a
\* file that cannot be opened, main ends with the exception raised, and at
\* no moment is a run started, a future submitted, a worker thread started
\* or a probe invoked: not for the targets named before the malformed one
\* either.
C18_FailFast ==
    (e_pc # "off" /\ EnumerationFails) =>
        /\ NothingDispatched
        /\ e_pc \in {"main", "raised"}
        /\ e_pc = "raised" => e_ret[1].exception # None

\* C18 witness: banner_grab's main has ended with the ValueError of the
\* second line of a file whose first line names a target
C18_Witness ==
    /\ e_pc = "raised" /\ e_fn = "banner_grab.main" /\ e_arg.targets # None
    /\ e_arg.targets[1].readable
    /\ LineTarget(FileLines[1]) # None /\ LineTarget(FileLines[2]) = None
    /\ e_ret[1].exception = Some(ValueErrorExc)
    /\ NothingDispatched

(***************************************************************************)
(* Claims about the time try_banner records (SpecProbe).  Time is counted  *)
(* in ticks; the timeout of the call is p_args.timeout ticks, and a slack  *)
(* is less than one tick.                                                  *)
(***************************************************************************)
TryBannerReturned ==
    ProbeReturned /\ p_fn = "try_banner" /\ p_ret[1].exception = None
\* the blocking steps the call made, read from the arguments and the
\* transport by hand: connect, then the TLS handshake on 443 and 8443 or
\* with use_ssl, the HEAD request on an HTTP port with http_probe, the read
BlockingSteps ==
    IF p_net.sock = "raise" THEN 0
    ELSE IF p_net.connect # "ok" THEN 1
    ELSE 2 + (IF p_args.use_ssl \/ p_args.port \in {443, 8443} THEN 1 ELSE 0)
           + (IF p_args.http_probe /\ p_args.port \in {80, 8080, 8000, 443, 8443}
              THEN 1 ELSE 0)

\* C21 (as claimed): the elapsed time try_banner records is never negative
\* and never exceeds the timeout of the call (plus a slack of less than a
\* tick), each blocking step taking at most the timeout.
C21_ElapsedWithinTimeout ==
    TryBannerReturned =>
        /\ Outcome.elapsed_ms # None
        /\ Outcome.elapsed_ms[1] >= 0
        /\ Outcome.elapsed_ms[1] <= p_args.timeout

\* C21 (amended): the elapsed time try_banner records is never negative and
\* never exceeds the timeout times the number of blocking steps the call
\* made (connect, TLS handshake, request, read: each step has the whole
\* timeout to itself), so it is at most four times the timeout, and at most
\* the timeout only when the connect fails.
C21_ElapsedWithinStepTimeouts ==
    TryBannerReturned =>
        /\ Outcome.elapsed_ms # None
        /\ Outcome.elapsed_ms[1] >= 0
        /\ Outcome.elapsed_ms[1] <= BlockingSteps * p_args.timeout
        /\ Outcome.elapsed_ms[1] <= 4 * p_args.timeout
        /\ ~Connected => Outcome.elapsed_ms[1] <= p_args.timeout

\* C21 witness: a call on port 443 with http_probe whose connect, handshake
\* and request each took the whole timeout and whose read timed out has
\* recorded four times the timeout
C21_Witness ==
    /\ TryBannerReturned /\ Connected
    /\ p_args.port = 443 /\ p_args.http_probe
    /\ p_net.recv = "timeout"
    /\ Outcome.elapsed_ms = Some(4 * p_args.timeout)

(***************************************************************************)
(* Claims about the steps of try_banner (SpecProbe).                       *)
(***************************************************************************)
\* the place of a call in the calls the probe made, 0 when it was not made
Place(c) ==
    IF \E k \in 1..Len(p_calls) : p_calls[k] = c
    THEN CHOOSE k \in 1..Len(p_calls) : p_calls[k] = c
    ELSE 0
Times(c) == Cardinality({k \in 1..Len(p_calls) : p_calls[k] = c})
\* two calls are in this order when both were made
InOrder(c, d) == (Place(c) # 0 /\ Place(d) # 0) => Place(c) < Place(d)

\* C27: in try_banner the steps occur in the order connect, TLS wrap,
\* request, read, each at most once; the TLS wrap is attempted exactly
\* when the connect succeeded and use_ssl is set or the port is 443 or
\* 8443; the HEAD request is sent exactly when the connect succeeded,
\* http_probe is set and the port is an HTTP port, which for a connected
\* target is exactly when the outcome's probing field is "http"; the read
\* is made whenever the connect succeeded, a failed wrap or a failed
\* request included, and data it reads makes the outcome a success.
C27_StepOrder ==
    TryBannerReturned =>
        /\ \A c \in {"connect", "wrap_socket", "sendall", "recv"} : Times(c) <= 1
        /\ InOrder("connect", "wrap_socket") /\ InOrder("connect", "sendall")
        /\ InOrder("connect", "recv") /\ InOrder("wrap_socket", "sendall")
        /\ InOrder("wrap_socket", "recv") /\ InOrder("sendall", "recv")
        /\ Place("wrap_socket") # 0
             <=> (Connected /\ (p_args.use_ssl \/ p_args.port \in {443, 8443}))
        /\ Place("sendall") # 0
             <=> (Connected /\ p_args.http_probe
                  /\ p_args.port \in {80, 8080, 8000, 443, 8443})
        /\ Connected => (Place("sendall") # 0 <=> Outcome.probing = "http")
        /\ Place("recv") # 0 <=> Connected
        /\ (Connected /\ p_net.recv = "data" /\ p_net.data # <<>>)
             => Outcome.success

\* C27 witness: a call on port 443 with http_probe whose request failed
\* has made connect, wrap, request and read in this order, and the data it
\* read made the outcome a success
C27_Witness ==
    /\ TryBannerReturned /\ Connected
    /\ p_args.port = 443 /\ p_args.http_probe /\ p_net.send = "raise"
    /\ p_calls = <<"socket", "settimeout", "connect", "wrap_socket", "sendall",
                   "recv", "close">>
    /\ Outcome.probing = "http" /\ Outcome.success

(***************************************************************************)
(* Claims about the fields of the outcome of try_banner (SpecProbe).       *)
(***************************************************************************)
\* the read of the call returned at least one byte
ReadBytes == Connected /\ p_net.recv = "data" /\ p_net.data # <<>>

\* C28 (as claimed): an outcome of try_banner with success true has a null
\* error and a banner that is a non-empty text, and one with success false
\* has a null banner.
C28_SuccessMeansBannerNoError ==
    TryBannerReturned =>
        /\ Outcome.success =>
              /\ Outcome.error = None
              /\ Outcome.banner # None /\ NonEmptyText(Outcome.banner[1])
        /\ ~Outcome.success => Outcome.banner = None

\* C28 (amended): an outcome of try_banner has success true exactly when
\* the read returned at least one byte; then its banner is a text, which is
\* empty when the bytes were white space or undecodable, and its error is
\* null, or the TLS wrap error when the wrap had failed; an outcome with
\* success false has a null banner.
C28_SuccessMeansBytesRead ==
    TryBannerReturned =>
        /\ Outcome.success <=> ReadBytes
        /\ Outcome.success =>
              /\ Outcome.banner # None
              /\ Outcome.error = IF WrapFailed
                                 THEN Some(<<"ssl_wrap_error: ", str(SSLExc)>>)
                                 ELSE None
              /\ (\A k \in 1..Len(p_net.data) : p_net.data[k] \in {" ", "~"})
                    => Outcome.banner = Some(<<>>)
              /\ (\E k \in 1..Len(p_net.data) : p_net.data[k] = "S")
                    => NonEmptyText(Outcome.banner[1])
        /\ ~Outcome.success => Outcome.banner = None

\* C28 witness: a call whose TLS wrap failed and whose read returned one
\* byte of white space has returned success true with the TLS wrap error
\* and the empty text as banner
C28_Witness ==
    /\ TryBannerReturned /\ WrapFailed
    /\ p_net.recv = "data" /\ p_net.data = <<" ">>
    /\ Outcome.success /\ Outcome.banner = Some(<<>>)
    /\ Outcome.error = Some(<<"ssl_wrap_error: ", str(SSLExc)>>)

(***************************************************************************)
(* Claims about the order in which the probes of a run start (Spec).       *)
(***************************************************************************)
\* the probe of target i has begun executing; it waits to start before
Started(i) == fut[i].state \in {"RUNNING", "FINISHED"}
Waiting(i) == fut[i].state \in {"NONE", "PENDING"}

WorkerStep == threads' # threads \/ fut' # fut \/ queue' # queue
\* a step of the calling thread in its as_completed loop
CollectStep == pc = "collect" /\ pc' = "collect" /\ Len(yielded') = Len(yielded) + 1

\* C24: in run_scan, run_bulk and sweep the list of outcomes changes only
\* in a step of the calling thread in its as_completed loop, which appends
\* exactly one outcome, that of the future just yielded; a step of a worker
\* thread leaves the list as it is, and no step is both.
C24_OnlyCallerAppends ==
    [][/\ WorkerStep => results' = results
       /\ results' # results =>
            /\ CollectStep /\ ~WorkerStep
            /\ Len(results') = Len(results) + 1
            /\ SubSeq(results', 1, Len(results)) = results
            /\ fut[yielded'[Len(yielded')]].state = "FINISHED"]_vars

\* C24 witness: the calling thread has appended the outcome of the second
\* target while a worker thread still runs the probe of the first
C24_Witness ==
    /\ pc = "collect" /\ N >= 2
    /\ Len(results) = 1 /\ yielded = <<2>>
    /\ fut[1].state = "RUNNING"

(***************************************************************************)
(* Claims about the pause of sweep (Spec).                                 *)
(***************************************************************************)
Sleeping(w) == threads[w].state = "sleeping"
\* the future of target i becomes finished in this step, with a result
Returns(i) ==
    /\ fut[i].state # "FINISHED" /\ fut'[i].state = "FINISHED"
    /\ fut'[i].exception = None

\* C25: in sweep, in icmp and in tcp mode: a worker pauses only when delay
\* is greater than 0, and while it pauses the probe of its target has
\* ended (its result is known), the worker still counts as executing, its
\* future is not finished and its outcome is not collected; with delay
\* greater than 0 the pause begins in the step that ends the probe, which
\* frees no slot, and the future of a probe that returned becomes finished
\* only by the end of that pause, with the result the probe had returned,
\* and the worker is idle from then on; with delay 0 no worker ever pauses
\* and the future becomes finished by the end of the probe.
C25_PauseBeforeSlotFreed ==
    /\ [](prog = "sweep" =>
            /\ \A w \in 1..Len(threads) :
                  Sleeping(w) =>
                      /\ cfg.delay > 0
                      /\ w \in Executing
                      /\ fate[threads[w].item] # None
                      /\ fate[threads[w].item][1].result = threads[w].held
                      /\ fut[threads[w].item].state = "RUNNING"
                      /\ threads[w].item \notin Yielded
            /\ Cardinality(Executing) <= cfg.workers
            /\ cfg.delay = 0 => \A w \in 1..Len(threads) : ~Sleeping(w))
    /\ [][prog = "sweep" =>
            \A w \in 1..Len(threads) :
                (~Sleeping(w) /\ threads'[w].state = "sleeping") =>
                    /\ threads[w].state = "probing"
                    /\ threads'[w].item = threads[w].item
                    /\ idle_sem' = idle_sem /\ fut' = fut]_vars
    /\ [][prog = "sweep" =>
            \A i \in 1..N :
                Returns(i) =>
                    IF cfg.delay > 0
                    THEN \E w \in 1..Len(threads) :
                            /\ Sleeping(w) /\ threads[w].item = i
                            /\ threads'[w].state = "idle"
                            /\ fut'[i].result = threads[w].held
                    ELSE \E w \in 1..Len(threads) :
                            /\ threads[w].state = "probing" /\ threads[w].item = i
                            /\ threads'[w].state = "idle"]_vars

\* C25 witness: a sweep in tcp mode with delay 1: a worker pauses after
\* the probe of the first address while the calling thread has already
\* collected another outcome
C25_Witness ==
    /\ prog = "sweep" /\ cfg.mode = "tcp" /\ cfg.delay = 1
    /\ pc = "collect" /\ Len(results) >= 1
    /\ \E w \in 1..Len(threads) : Sleeping(w) /\ threads[w].item = 1

(***************************************************************************)
(* Claims about the return of run_scan and of sweep (Spec).                *)
(***************************************************************************)
\* the time at which every event of a run over n targets has happened:
\* n submissions, n starts, n ends and n futures handed out
AllEvents(n) == 4 * n

\* C26: run_scan and sweep return their report only when every submitted
\* probe has completed and been collected: at the return every target has
\* been submitted, every future is finished and has been handed out, its
\* outcome is in the list, the work queue is empty and no worker thread
\* executes; scanned_at is the time before the first event of the run (the
\* first submission included) and completed_at the time after the last
\* one (the last collection included).
C26_ReturnAfterAllCollected ==
    (pc = "done" /\ prog \in {"run_scan", "sweep"}) =>
        /\ next_i = N + 1
        /\ \A i \in 1..N : fut[i].state = "FINISHED"
        /\ Yielded = 1..N /\ Len(yielded) = N /\ Len(results) = N
        /\ queue = <<>> /\ Executing = {}
        /\ ret[1].scanned_at = 0
        /\ ret[1].completed_at = AllEvents(N)
        /\ ret[1].scanned_at <= ret[1].completed_at

\* C26 witness: a sweep over three addresses with two workers has returned
\* its report, the second address having been collected first
C26_Witness ==
    /\ pc = "done" /\ prog = "sweep" /\ N = 3 /\ cfg.workers = 2
    /\ yielded[1] = 2
    /\ ret[1].scanned_at = 0 /\ ret[1].completed_at = 12

(***************************************************************************)
(* Claims about a probe that blocks (SpecLive).                            *)
(***************************************************************************)
\* the first worker thread runs the probe of target i: the probe that may
\* block
Blocked(i) ==
    /\ Len(threads) >= 1
    /\ threads[1].state = "probing" /\ threads[1].item = i

\* C23: with two workers or more, whatever probe the first worker thread
\* is blocked in, every other target is eventually started and its future
\* eventually finishes, the other worker threads being scheduled fairly,
\* whether the probes of other targets returned or raised; and a future
\* only finishes by its own probe having been invoked and having ended,
\* never by a cancellation.
C23_OthersStillComplete ==
    /\ [](\A i \in 1..N :
            /\ fut[i].state \in {"NONE", "PENDING", "RUNNING", "FINISHED"}
            /\ fut[i].state = "FINISHED" =>
                  /\ Len(made[i]) = 1 /\ fate[i] # None
                  /\ fut[i].exception = fate[i][1].exception)
    /\ \A i \in 1..MaxTargets :
          <>(cfg.workers < 2 \/ i > N \/ fut[i].state = "FINISHED" \/ Blocked(i))

\* C23 witness: with two workers and three targets the first worker
\* thread is still in the probe of the first target while the futures of
\* the other two are finished, one of them with an exception
C23_Witness ==
    /\ cfg.workers = 2 /\ N = 3
    /\ Blocked(1)
    /\ fut[2].state = "FINISHED" /\ fut[3].state = "FINISHED"
    /\ fut[2].exception # None

=============================================================================
